---- MODULE Spec2Model ----
(***************************************************************************)
(* Model of resnet.py: ResGraph, a networkx DiGraph whose nodes            *)
(* (technologies) and edges (fuels) receive, on insertion, the parameters  *)
(* and variables that the skeleton JSON document declares for the          *)
(* insertion's index.                                                      *)
(*                                                                         *)
(* A Python dict is a function; {} is the function with empty domain.      *)
(* A raised exception leaves the graph as it was and is recorded in        *)
(* call.err.                                                               *)
(***************************************************************************)
EXTENDS Integers, Sequences, FiniteSets, TLC

VARIABLES
    structure,  \* self.structure, the loaded skeleton document
    node,       \* DiGraph._node: label -> attribute dict
    adj,        \* DiGraph._adj: <<u, v>> -> attribute dict
    call,       \* the last call made on the object, its arguments and outcome
    ret,        \* the value returned by the last get_params / get_variables
    prevCall,   \* history: the call made before the last one
    pre,        \* history: the graph on entry to the last call
    ncalls      \* history: number of add_* calls made so far

vars == <<structure, node, adj, call, ret, prevCall, pre, ncalls>>

(* ------------------------------ bounds --------------------------------- *)

MaxCalls == 2
MaxIndices == 2

(* ------------------------------ inputs --------------------------------- *)

Labels == {"PWRGEO", "PWRTRN"}
TechTypes == {"Geothermal Power Plant", "Transmission of Electricity"}
Layers == {0, 1}
FuelLabels == {"ELC001", "ELC002"}
FuelTypes == {"Electricity before Transmission"}
IndexCodes == {"t", "f", "technology"}

EmptyDict == <<>>
\* what open(self.skeleton_path) finds: no file, or a JSON document
NoFile == [found |-> FALSE]
File(doc) == [found |-> TRUE, doc |-> doc]
Omitted == "<omitted>"
IndexArgs == IndexCodes \cup {Omitted}

Entry(indices, default) == [indices |-> indices, default |-> default]

\* the example of the documentation: one parameter tagged "technology"
DocTechnology ==
    [params |-> ("Capacity" :> Entry(<<"technology">>, 0)),
     variables |-> EmptyDict]

\* parameters and variables tagged with the codes the methods default to
DocCodes ==
    [params |-> ("Capacity" :> Entry(<<"t", "technology">>, 0)),
     variables |-> ("Flow" :> Entry(<<"f">>, 0) @@ "Units" :> Entry(<<"t">>, 1))]

\* parameters named like the keyword arguments of the insertions
DocKeyword ==
    [params |-> ("layer" :> Entry(<<"t">>, 5)
                 @@ "fuel_label" :> Entry(<<"f">>, "ELC000")),
     variables |-> EmptyDict]

\* one name declared both as a parameter and as a variable
DocShared ==
    [params |-> ("Capacity" :> Entry(<<"t", "f">>, 0)),
     variables |-> ("Capacity" :> Entry(<<"f", "t">>, 1))]

SkeletonFiles ==
    {NoFile, File(DocTechnology), File(DocCodes), File(DocKeyword),
     File(DocShared)}

\* documents enumerated for the schema queries
SchemaParamNames == {"Capacity", "Cost"}
SchemaVariableNames == {"Flow"}
SchemaIndexCodes == {"t", "f"}
SchemaDefaults == {0, 1}
IndexLists ==
    UNION {[1..n -> SchemaIndexCodes] : n \in 1..MaxIndices}
SchemaEntries ==
    {Entry(l, d) : l \in IndexLists, d \in SchemaDefaults}
Dicts(names) == UNION {[S -> SchemaEntries] : S \in SUBSET names}
SchemaFiles ==
    {NoFile} \cup {File([params |-> p, variables |-> v]) :
                      p \in Dicts(SchemaParamNames),
                      v \in Dicts(SchemaVariableNames)}

(* --------------------------- the structure ----------------------------- *)

load_structure(file) ==
    IF file.found THEN file.doc ELSE EmptyDict

Raise(e) == [err |-> e, val |-> EmptyDict]
Return(v) == [err |-> "none", val |-> v]

\* compares the index with the first declared index only
ContainsFirst(list, index) == list[1] = index

\* Python's `index in list`
Contains(list, index) == \E k \in DOMAIN list : list[k] = index

Select(table, index) ==
    [name \in {n \in DOMAIN table : Contains(table[n].indices, index)}
        |-> table[name].default]

get_params(index) ==
    IF "params" \notin DOMAIN structure
    THEN Raise("KeyError")
    ELSE Return(Select(structure.params, index))

get_variables(index) ==
    IF "variables" \notin DOMAIN structure
    THEN Raise("KeyError")
    ELSE Return(Select(structure.variables, index))

(* ---------------------- the networkx container ------------------------- *)

\* passes the parameters on and forgets the variables
KeywordsNoVariables(explicit, a, b) ==
    IF \/ DOMAIN explicit \cap DOMAIN a # {}
       \/ (DOMAIN explicit \cup DOMAIN a) \cap DOMAIN b # {}
    THEN Raise("TypeError")
    ELSE Return(explicit @@ a)

\* f(explicit keywords, **a, **b): a keyword given twice is a TypeError
Keywords(explicit, a, b) ==
    IF \/ DOMAIN explicit \cap DOMAIN a # {}
       \/ (DOMAIN explicit \cup DOMAIN a) \cap DOMAIN b # {}
    THEN Raise("TypeError")
    ELSE Return(explicit @@ a @@ b)

\* dict.update: the new entries override the old ones
Update(old, new) == new @@ old

\* re-adding a node leaves it with an empty attribute dict
add_nodeReset(nd, n, attr) ==
    IF n \in DOMAIN nd
    THEN [nd EXCEPT ![n] = EmptyDict]
    ELSE (n :> attr) @@ nd

add_node(nd, n, attr) ==
    IF n \in DOMAIN nd
    THEN [nd EXCEPT ![n] = Update(@, attr)]
    ELSE (n :> attr) @@ nd

\* gives every endpoint an empty attribute dict, also one that is a node
EndpointBare(nd, n) == (n :> EmptyDict) @@ nd

\* add_edge creates a missing endpoint with an empty attribute dict
Endpoint(nd, n) ==
    IF n \in DOMAIN nd THEN nd ELSE (n :> EmptyDict) @@ nd

add_edge(ad, u, v, attr) ==
    IF <<u, v>> \in DOMAIN ad
    THEN [ad EXCEPT ![<<u, v>>] = Update(@, attr)]
    ELSE (<<u, v>> :> attr) @@ ad

(* ------------------------------ actions -------------------------------- *)

Graph == [node |-> node, adj |-> adj]

Init ==
    /\ \E file \in SkeletonFiles : structure = load_structure(file)
    /\ node = EmptyDict
    /\ adj = EmptyDict
    /\ call = [op |-> "__post_init__", err |-> "none"]
    /\ ret = EmptyDict
    /\ prevCall = [op |-> "none"]
    /\ pre = [node |-> EmptyDict, adj |-> EmptyDict]
    /\ ncalls = 0

Record(c) ==
    /\ ncalls < MaxCalls
    /\ ncalls' = ncalls + 1
    /\ call' = c
    /\ prevCall' = call
    /\ pre' = Graph
    /\ UNCHANGED <<structure, ret>>

TechIndex(index) == IF index = Omitted THEN "t" ELSE index
FuelIndex(index) == IF index = Omitted THEN "f" ELSE index

add_technology(tech_label, tech_type, layer, index) ==
    LET idx == TechIndex(index)
        node_params == get_params(idx)
        node_vars == get_variables(idx)
        kw == Keywords([tech_type |-> tech_type, layer |-> layer,
                        index |-> idx],
                       node_params.val, node_vars.val)
        err == IF node_params.err # "none" THEN node_params.err
               ELSE IF node_vars.err # "none" THEN node_vars.err
               ELSE kw.err
    IN  /\ Record([op |-> "add_technology", tech_label |-> tech_label,
                   tech_type |-> tech_type, layer |-> layer,
                   index |-> index, err |-> err])
        /\ node' = IF err = "none" THEN add_node(node, tech_label, kw.val)
                   ELSE node
        /\ adj' = adj

add_fuel(tech_from, tech_to, fuel_label, fuel_type, index) ==
    LET idx == FuelIndex(index)
        edge_params == get_params(idx)
        edge_vars == get_variables(idx)
        kw == Keywords([fuel_label |-> fuel_label, fuel_type |-> fuel_type,
                        index |-> idx],
                       edge_params.val, edge_vars.val)
        err == IF edge_params.err # "none" THEN edge_params.err
               ELSE IF edge_vars.err # "none" THEN edge_vars.err
               ELSE kw.err
    IN  /\ Record([op |-> "add_fuel", tech_from |-> tech_from,
                   tech_to |-> tech_to, fuel_label |-> fuel_label,
                   fuel_type |-> fuel_type, index |-> index, err |-> err])
        /\ node' = IF err = "none"
                   THEN Endpoint(Endpoint(node, tech_from), tech_to)
                   ELSE node
        /\ adj' = IF err = "none"
                  THEN add_edge(adj, tech_from, tech_to, kw.val)
                  ELSE adj

\* an index registration that starts the graph afresh
StubClear(op, index) ==
    /\ Record([op |-> op, index |-> index, err |-> "none"])
    /\ node' = EmptyDict
    /\ adj' = EmptyDict

\* the body of every index-registration method is `pass`
Stub(op, index) ==
    /\ Record([op |-> op, index |-> index, err |-> "none"])
    /\ UNCHANGED <<node, adj>>

add_region(index) == Stub("add_region", index)
add_emission(index) == Stub("add_emission", index)
add_year(index) == Stub("add_year", index)
add_timeslice(index) == Stub("add_timeslice", index)
add_mode_of_operation(index) == Stub("add_mode_of_operation", index)
add_season(index) == Stub("add_season", index)
add_daytype(index) == Stub("add_daytype", index)
add_dailytimebracket(index) == Stub("add_dailytimebracket", index)
add_storage(index) == Stub("add_storage", index)

Next ==
    \/ \E l \in Labels, ty \in TechTypes, ly \in Layers, i \in IndexArgs :
          add_technology(l, ty, ly, i)
    \/ \E a \in Labels, b \in Labels, fl \in FuelLabels, ft \in FuelTypes,
          i \in IndexArgs : add_fuel(a, b, fl, ft, i)
    \/ add_region(Omitted)
    \/ add_emission(Omitted)
    \/ add_year(Omitted)
    \/ add_timeslice(Omitted)
    \/ add_mode_of_operation(Omitted)
    \/ add_season(Omitted)
    \/ add_daytype(Omitted)
    \/ add_dailytimebracket(Omitted)
    \/ add_storage(Omitted)

Spec == Init /\ [][Next]_vars

(* ------------------------- the schema queries -------------------------- *)

InitSchema ==
    /\ \E file \in SchemaFiles : structure = load_structure(file)
    /\ node = EmptyDict
    /\ adj = EmptyDict
    /\ call = [op |-> "__post_init__", err |-> "none"]
    /\ ret = EmptyDict
    /\ prevCall = [op |-> "none"]
    /\ pre = [node |-> EmptyDict, adj |-> EmptyDict]
    /\ ncalls = 0

Query(op, index, result) ==
    /\ call' = [op |-> op, index |-> index, err |-> result.err]
    /\ ret' = result.val
    /\ prevCall' = call
    /\ pre' = Graph
    /\ UNCHANGED <<structure, node, adj, ncalls>>

GetParams(index) == Query("get_params", index, get_params(index))
GetVariables(index) == Query("get_variables", index, get_variables(index))

NextSchema ==
    \/ \E i \in IndexCodes : GetParams(i)
    \/ \E i \in IndexCodes : GetVariables(i)

SpecSchema == InitSchema /\ [][NextSchema]_vars

(* ------------------------ properties: schema --------------------------- *)

Loaded == {"params", "variables"} \subseteq DOMAIN structure

\* the names of a table whose declared indices include i
Declared(table, i) ==
    {n \in DOMAIN table :
        i \in {table[n].indices[k] : k \in 1..Len(table[n].indices)}}

\* d maps exactly the names declared for i, each to its declared default
ExactlyDeclared(d, table, i) ==
    /\ DOMAIN d = Declared(table, i)
    /\ \A n \in Declared(table, i) : d[n] = table[n].default

\* C1: on a well-formed loaded schema, get_params(i) returns a mapping whose
\* keys are exactly the parameters whose declared indices contain i, each
\* mapped to its declared default, and get_variables(i) does the same over
\* the variables.
C1_QueryReturnsDeclared ==
    /\ (Loaded /\ call.op = "get_params") =>
          /\ call.err = "none"
          /\ ExactlyDeclared(ret, structure.params, call.index)
    /\ (Loaded /\ call.op = "get_variables") =>
          /\ call.err = "none"
          /\ ExactlyDeclared(ret, structure.variables, call.index)

\* a query that selected some of the declared parameters and left out others
C1_Witness ==
    /\ Loaded
    /\ call.op = "get_params"
    /\ DOMAIN ret # {}
    /\ DOMAIN ret # DOMAIN structure.params
    /\ prevCall.op = "get_variables"

\* C2: when the skeleton path does not exist the loaded schema is empty and
\* both queries return an empty mapping, for every index, without raising.
C2_MissingPathQueriesEmpty ==
    (structure = EmptyDict /\ call.op \in {"get_params", "get_variables"}) =>
        /\ call.err = "none"
        /\ ret = EmptyDict

(* ------------------------ properties: graph ---------------------------- *)

\* the schema attributes an insertion under index i is to carry
HasDeclared(attrs, i) ==
    /\ \A n \in Declared(structure.params, i) :
          n \in DOMAIN attrs /\ attrs[n] = structure.params[n].default
    /\ \A n \in Declared(structure.variables, i) :
          n \in DOMAIN attrs /\ attrs[n] = structure.variables[n].default

DeclaredNames(i) ==
    Declared(structure.params, i) \cup Declared(structure.variables, i)

\* the last call was add_technology(label, type, layer) on a graph without label
FreshTechnology ==
    /\ call.op = "add_technology"
    /\ call.index = Omitted
    /\ call.tech_label \notin DOMAIN pre.node

TechnologyKeys == {"tech_type", "layer", "index"}
FuelKeys == {"fuel_label", "fuel_type", "index"}

\* the index the last insertion ran under
CallIndex ==
    IF call.op = "add_technology" THEN TechIndex(call.index)
    ELSE FuelIndex(call.index)

\* a name declared for i is one of the keywords, or is declared twice
KeywordClash(keys, i) ==
    \/ DeclaredNames(i) \cap keys # {}
    \/ Declared(structure.params, i) \cap Declared(structure.variables, i) # {}

\* C4: add_fuel(a, b, fuel_label, fuel_type) with a # b results in the edge
\* (a, b) carrying fuel_label; (b, a) is an edge afterwards only if it was
\* one before, and no other ordered pair gains or loses an edge.
C4_FuelOneDirectedEdge ==
    (call.op = "add_fuel" /\ call.index = Omitted
        /\ call.tech_from # call.tech_to) =>
        LET e == <<call.tech_from, call.tech_to>>
        IN  /\ e \in DOMAIN adj
            /\ adj[e]["fuel_label"] = call.fuel_label
            /\ <<e[2], e[1]>> \in DOMAIN adj => <<e[2], e[1]>> \in DOMAIN pre.adj
            /\ DOMAIN adj \ {e} = DOMAIN pre.adj \ {e}

SameTechnologyCall ==
    /\ call.op = "add_technology"
    /\ prevCall.op = "add_technology"
    /\ call.tech_label = prevCall.tech_label
    /\ call.tech_type = prevCall.tech_type
    /\ call.layer = prevCall.layer
    /\ TechIndex(call.index) = TechIndex(prevCall.index)

\* C5: add_technology called twice in a row with the same label and the
\* same arguments leaves nodes, edges and attributes as the first call
\* left them.
C5_TechnologyIdempotent ==
    SameTechnologyCall => (node = pre.node /\ adj = pre.adj)

\* the second of two equal add_technology calls that inserted the node
C5_Witness ==
    /\ SameTechnologyCall
    /\ call.err = "none"
    /\ call.tech_label \in DOMAIN node
    /\ DeclaredNames(CallIndex) # {}

\* C6: add_fuel(a, b, ...) fails for no reason but the schema (never because
\* of an endpoint); when it returns, (a, b) is an edge, an endpoint that was
\* not a node is a node with an empty attribute mapping, and an endpoint that
\* was a node keeps its attributes.
C6_FuelEndpoints ==
    call.op = "add_fuel" =>
        /\ call.err = "none"
              <=> (Loaded /\ ~KeywordClash(FuelKeys, CallIndex))
        /\ call.err = "none" =>
              /\ <<call.tech_from, call.tech_to>> \in DOMAIN adj
              /\ \A n \in {call.tech_from, call.tech_to} :
                    /\ n \in DOMAIN node
                    /\ node[n] = IF n \in DOMAIN pre.node THEN pre.node[n]
                                 ELSE EmptyDict

\* a fuel from a technology with attributes to a label that was not a node
C6_Witness ==
    /\ call.op = "add_fuel"
    /\ call.err = "none"
    /\ call.tech_from \in DOMAIN pre.node
    /\ DOMAIN pre.node[call.tech_from] # {}
    /\ call.tech_to \notin DOMAIN pre.node
    /\ node[call.tech_to] = EmptyDict

\* C7: with a missing schema file every add_technology and add_fuel call
\* completes without error and attaches the caller-supplied attributes only.
C7_MissingSchemaUsable ==
    structure = EmptyDict =>
        /\ call.op = "add_technology" =>
              /\ call.err = "none"
              /\ call.tech_label \in DOMAIN node
              /\ DOMAIN node[call.tech_label] = TechnologyKeys
        /\ call.op = "add_fuel" =>
              /\ call.err = "none"
              /\ <<call.tech_from, call.tech_to>> \in DOMAIN adj
              /\ DOMAIN adj[<<call.tech_from, call.tech_to>>] = FuelKeys

\* C8: when a name declared for the insertion's index is one of the
\* caller-supplied attributes, the call succeeds and the node or edge carries
\* the caller's value for it.
C8_CallerValueWins ==
    /\ (call.op = "add_technology" /\ Loaded
          /\ DeclaredNames(CallIndex) \cap TechnologyKeys # {}) =>
          /\ call.err = "none"
          /\ call.tech_label \in DOMAIN node
          /\ node[call.tech_label]["tech_type"] = call.tech_type
          /\ node[call.tech_label]["layer"] = call.layer
          /\ node[call.tech_label]["index"] = CallIndex
    /\ (call.op = "add_fuel" /\ Loaded
          /\ DeclaredNames(CallIndex) \cap FuelKeys # {}) =>
          /\ call.err = "none"
          /\ <<call.tech_from, call.tech_to>> \in DOMAIN adj
          /\ LET attrs == adj[<<call.tech_from, call.tech_to>>]
             IN  /\ attrs["fuel_label"] = call.fuel_label
                 /\ attrs["fuel_type"] = call.fuel_type
                 /\ attrs["index"] = CallIndex

\* the attributes of a call: the caller's, and the declared defaults
CallAttrs(base) ==
    [k \in DOMAIN base \cup DeclaredNames(CallIndex) |->
        IF k \in DOMAIN base THEN base[k]
        ELSE IF k \in DOMAIN structure.params THEN structure.params[k].default
        ELSE structure.variables[k].default]

Overridden(old, new) ==
    [k \in DOMAIN old \cup DOMAIN new |->
        IF k \in DOMAIN new THEN new[k] ELSE old[k]]

\* C9: add_technology on a label that is a node, and add_fuel on a pair that
\* is an edge, never fail, leave the number of nodes (edges) unchanged, and
\* leave the entity with its previous attributes overridden key by key by
\* the attributes of the new call.
C9_ReuseMerges ==
    /\ (call.op = "add_technology" /\ call.tech_label \in DOMAIN pre.node) =>
          /\ call.err = "none"
          /\ Cardinality(DOMAIN node) = Cardinality(DOMAIN pre.node)
          /\ node[call.tech_label] =
                Overridden(pre.node[call.tech_label],
                           CallAttrs([tech_type |-> call.tech_type,
                                      layer |-> call.layer,
                                      index |-> CallIndex]))
    /\ (call.op = "add_fuel"
          /\ <<call.tech_from, call.tech_to>> \in DOMAIN pre.adj) =>
          /\ call.err = "none"
          /\ Cardinality(DOMAIN adj) = Cardinality(DOMAIN pre.adj)
          /\ adj[<<call.tech_from, call.tech_to>>] =
                Overridden(pre.adj[<<call.tech_from, call.tech_to>>],
                           CallAttrs([fuel_label |-> call.fuel_label,
                                      fuel_type |-> call.fuel_type,
                                      index |-> CallIndex]))

StubOps ==
    {"add_region", "add_emission", "add_year", "add_timeslice",
     "add_mode_of_operation", "add_season", "add_daytype",
     "add_dailytimebracket", "add_storage"}

\* C10: every step keeps every node and every edge, and a step of an
\* index-registration method leaves nodes, edges, attributes and the schema
\* as they were.
C10_OnlyGrows ==
    [][/\ DOMAIN node \subseteq DOMAIN node'
       /\ DOMAIN adj \subseteq DOMAIN adj'
       /\ call'.op \in StubOps =>
             (node' = node /\ adj' = adj /\ structure' = structure)]_vars

\* an index registration on a graph that has nodes and an edge
C10_Witness ==
    /\ call.op \in StubOps
    /\ DOMAIN node # {}
    /\ DOMAIN adj # {}
====
